---- MODULE Spec2Model ----
(***************************************************************************)
(* Applyomatic (src/src/main.js): the interactive CV polishing round.      *)
(* polishCV asks the model for suggestions, runs the operator's review     *)
(* loop (reviewSuggestionsInteractively) and hands the approved edits to   *)
(* applyCVEdits.                                                           *)
(*                                                                         *)
(* Text is modelled as sequences of one-character strings.  A line typed   *)
(* at the "> " prompt is modelled as the sequence of its whitespace-       *)
(* separated words, which is what line.trim() followed by split(/\s+/)     *)
(* sees; the blank line is the empty sequence.                             *)
(***************************************************************************)
EXTENDS Integers, Sequences, FiniteSets, TLC

\* ------------------------------------------------------------------ bounds
MaxSugg == 3        \* longest suggestion list the model service returns
MaxArgLen == 3      \* longest second word of a typed line
MaxItems == 11      \* longest list of skills or achievements in a profile
MaxRoles == 2       \* longest list of past roles in a profile
MaxDays == 1        \* largest minReapplyDays / maxReapplyDays in a config
MaxAttemptsCfg == 2 \* largest maxAttempts in a config

\* ------------------------------------------------------------- characters
Digits == {"0", "1", "2", "3"}

DigitVal(c) == CASE c = "0" -> 0 [] c = "1" -> 1 [] c = "2" -> 2 [] c = "3" -> 3

ArgAlphabet == Digits \cup {"-", ",", "a"}

WordsUpTo(n) == UNION {[1..k -> ArgAlphabet] : k \in 1..n}

\* first words of a line: the four commands and two other words
CmdWords == {<<"d">>, <<"e">>, <<"c">>, <<"q">>, <<"a">>, <<"d", "a">>}

\* a word typed after the second word
ExtraWords == {<<"3">>}

\* what is typed after the first word
TypedTails ==
  {<<>>} \cup {<<w>> : w \in WordsUpTo(MaxArgLen)}
         \cup {<<w, x>> : w \in WordsUpTo(MaxArgLen - 1), x \in ExtraWords}

Lines == {<<>>} \cup {<<c>> \o t : c \in CmdWords, t \in TypedTails}

\* answers to the edit prompt
Replies == {<<>>, <<" ">>, <<"t">>, <<" ", "t">>}

Docs == {"cv0", "cv1"}

\* ------------------------------------------------------------ JS builtins
NaN == [ok |-> FALSE, val |-> 0]

Num(n) == [ok |-> TRUE, val |-> n]

RECURSIVE ScanDigits(_, _, _)
ScanDigits(w, i, acc) ==
  IF i > Len(w) \/ w[i] \notin Digits
    THEN [next |-> i, val |-> acc]
    ELSE ScanDigits(w, i + 1, acc * 10 + DigitVal(w[i]))

\* parseInt(w, 10): optional sign, then the leading decimal digits; what
\* follows them is ignored; NaN when there is no leading digit.
ParseInt(w) ==
  LET neg == w # <<>> /\ w[1] = "-"
      start == IF neg THEN 2 ELSE 1
      r == ScanDigits(w, start, 0)
  IN IF r.next = start THEN NaN
     ELSE Num(IF neg THEN 0 - r.val ELSE r.val)

\* Number.isInteger
IsInteger(x) == x.ok

\* String.prototype.split with a one-character separator
RECURSIVE SplitFrom(_, _, _, _)
SplitFrom(w, sep, i, cur) ==
  IF i > Len(w) THEN <<cur>>
  ELSE IF w[i] = sep THEN <<cur>> \o SplitFrom(w, sep, i + 1, <<>>)
  ELSE SplitFrom(w, sep, i + 1, Append(cur, w[i]))

Split(w, sep) == SplitFrom(w, sep, 1, <<>>)

\* String.prototype.trim
RECURSIVE TrimLeft(_)
TrimLeft(s) == IF s # <<>> /\ Head(s) = " " THEN TrimLeft(Tail(s)) ELSE s

RECURSIVE TrimRight(_)
TrimRight(s) ==
  IF s # <<>> /\ s[Len(s)] = " " THEN TrimRight(SubSeq(s, 1, Len(s) - 1)) ELSE s

Trim(s) == TrimRight(TrimLeft(s))

Min(a, b) == IF a <= b THEN a ELSE b

Max(a, b) == IF a >= b THEN a ELSE b

\* Array.from(set).sort((a, b) => a - b)
RECURSIVE SortAsc(_)
SortAsc(S) ==
  IF S = {} THEN <<>>
  ELSE LET m == CHOOSE x \in S : \A y \in S : x <= y
       IN <<m>> \o SortAsc(S \ {m})

Includes(seq, x) == \E k \in 1..Len(seq) : seq[k] = x

\* ---------------------------------------------------------- parseIndexList
\* PartIndices taking the typed numbers as 0-based indices
PartIndices_ZeroBased(part, max) ==
  IF part = <<>> THEN {}
  ELSE IF Includes(part, "-")
    THEN LET pieces == Split(part, "-")
             a == ParseInt(pieces[1])
             b == ParseInt(pieces[2])
         IN IF IsInteger(a) /\ IsInteger(b)
              THEN {j \in Min(a.val, b.val)..Max(a.val, b.val) : j >= 0 /\ j < max}
              ELSE {}
    ELSE LET n == ParseInt(part)
         IN IF IsInteger(n) /\ n.val >= 0 /\ n.val < max THEN {n.val} ELSE {}

\* the 0-based indices one comma-separated part contributes
PartIndices(part, max) ==
  IF part = <<>> THEN {}
  ELSE IF Includes(part, "-")
    THEN LET pieces == Split(part, "-")
             a == ParseInt(pieces[1])
             b == ParseInt(pieces[2])
         IN IF IsInteger(a) /\ IsInteger(b)
              THEN {i - 1 : i \in {j \in Min(a.val, b.val)..Max(a.val, b.val) :
                                     j >= 1 /\ j <= max}}
              ELSE {}
    ELSE LET n == ParseInt(part)
         IN IF IsInteger(n) /\ n.val >= 1 /\ n.val <= max THEN {n.val - 1} ELSE {}

parseIndexList(inputStr, max) ==
  LET parts == Split(inputStr, ",")
  IN SortAsc(UNION {PartIndices(parts[k], max) : k \in 1..Len(parts)})

\* list.filter((_, i) => !idxs.includes(i)), i being 0-based
RECURSIVE FilterOut(_, _, _)
FilterOut(l, idxs, i) ==
  IF l = <<>> THEN <<>>
  ELSE (IF Includes(idxs, i) THEN <<>> ELSE <<Head(l)>>)
         \o FilterOut(Tail(l), idxs, i + 1)

\* ------------------------------------------------------------- suggestions
TYPE_OPTIONS ==
  <<"clarity", "typo", "formatting", "impact", "consistency", "tone", "other">>

Locations == <<"Summary", "Skills", "Experience", "Education", "Contact">>

\* the i-th suggestion the model service returns
Suggestion(i) ==
  [type |-> TYPE_OPTIONS[((i - 1) % Len(TYPE_OPTIONS)) + 1],
   location |-> Locations[((i - 1) % Len(Locations)) + 1],
   suggestion |-> <<"s">>]

SuggestionLists == {[i \in 1..n |-> Suggestion(i)] : n \in 0..MaxSugg}

\* what suggestCVImprovements answers: an object with a suggestions array,
\* or one without that field
Missing == [has |-> FALSE, items |-> <<>>]

SuggestionResponses == {[has |-> TRUE, items |-> l] : l \in SuggestionLists} \cup {Missing}

\* ------------------------------------------------------- the run's inputs
\* an optional number / string of a JSON document or of the command line
AbsentNum == [given |-> FALSE, val |-> 0]

GivenNum(n) == [given |-> TRUE, val |-> n]

OptNum(S) == {AbsentNum} \cup {GivenNum(n) : n \in S}

AbsentStr == [given |-> FALSE, val |-> ""]

GivenStr(t) == [given |-> TRUE, val |-> t]

\* x || d on an optional number: 0 is falsy
OrElse(x, d) == IF x.given /\ x.val # 0 THEN x.val ELSE d

\* x ?? d on an optional number
Coalesce(x, d) == IF x.given THEN x.val ELSE d

\* x || '' on an optional string
OrEmpty(x) == IF x.given THEN x.val ELSE ""

\* process.env.OPENAI_API_KEY: not set, set to the empty string, set
Keys == {"absent", "empty", "set"}

\* yargs: --job, --once, --daemon ("none": no --job)
Argvs == [job : {"none", "j"}, once : BOOLEAN, daemon : BOOLEAN]

NoArgv == [job |-> "none", once |-> FALSE, daemon |-> FALSE]

\* config/job.config.json ("none": no job field; daemon absent reads as
\* false): configs that say nothing about the days, and configs that say
\* nothing but the job and the days
JobCfgs ==
  [job : {"none", "j"},
   daemon : BOOLEAN,
   maxAttempts : OptNum(0..MaxAttemptsCfg),
   minReapplyDays : {AbsentNum},
   maxReapplyDays : {AbsentNum}]
    \cup
  [job : {"none", "j"},
   daemon : {FALSE},
   maxAttempts : {AbsentNum},
   minReapplyDays : OptNum(0..MaxDays),
   maxReapplyDays : OptNum(0..MaxDays)]

NoJobCfg ==
  [job |-> "none", daemon |-> FALSE, maxAttempts |-> AbsentNum,
   minReapplyDays |-> AbsentNum, maxReapplyDays |-> AbsentNum]

\* literals of runOnce and main
DefaultMinDays == 30

DefaultMaxDays == 90

DefaultMaxAttempts == 3

FallbackDays == 45

SecondsPerDay == 86400

\* setTimeout: a delay above 2^31 - 1 ms is replaced by 1 ms
MaxTimerSeconds == 2147483

\* Math.floor(Math.random() * (max - min + 1)) + min, Math.random() in [0, 1)
randInt(min, max) ==
  LET n == max - min + 1
  IN IF n > 0 THEN min..(min + n - 1) ELSE (min + n)..min

\* a profile: skills and achievements are statements (here numbered), past
\* roles are records with optional from and description
Ids(n) == [i \in 1..n |-> i]

FromValues == {AbsentStr, GivenStr(""), GivenStr("2019-03"), GivenStr("2021-06")}

Descriptions == {AbsentStr, GivenStr("led the team")}

Role(t, f, d) == [jobTitle |-> t, from |-> f, description |-> d]

RoleLists ==
  UNION {{[i \in 1..n |-> Role(i, f[i], d[i])] :
            f \in [1..n -> FromValues], d \in [1..n -> Descriptions]} :
         n \in 0..MaxRoles}

Profile(s, a, r) == [skills |-> s, achievements |-> a, pastJobRoles |-> r]

NoProfile == Profile(<<>>, <<>>, <<>>)

\* profiles draftCV is checked on: long lists of skills, long lists of
\* achievements, and short lists of everything with all lists of past roles
Profiles ==
  {Profile(Ids(n), <<>>, <<>>) : n \in (0..3) \cup {MaxItems}}
    \cup {Profile(<<>>, Ids(n), <<>>) : n \in (1..3) \cup {MaxItems}}
    \cup {Profile(Ids(a), Ids(b), r) : a \in 0..1, b \in 0..1, r \in RoleLists}

\* the profile a whole run is checked on: two skills, one achievement and
\* one described past role
RunProfiles ==
  {Profile(Ids(2), Ids(1),
           <<Role(1, GivenStr("2021-06"), GivenStr("led the team"))>>)}

\* scores the model service answers for a skill or an achievement
Scores == {3, 7, 9}

\* scores the model service answers for a past role: the ends of the 1-10
\* scale and, as sendToLLM does not check the answer, one above it
RoleScores == {1, 10, 80}

\* res.output_text of a scorer call, as far as sendToLLM looks at it: text
\* that is no JSON, or the JSON text of an object with a score field
NotJSON == [json |-> FALSE, score |-> 0]

ScoreObject(s) == [json |-> TRUE, score |-> s]

SkillPayloads == {NotJSON} \cup {ScoreObject(s) : s \in Scores}

RolePayloads == {NotJSON} \cup {ScoreObject(s) : s \in RoleScores}

\* the scorers' schema: score: { type: 'integer', minimum: 1, maximum: 10 }
ScoreMinimum == 1

ScoreMaximum == 10

ValidScore(v) == v \in ScoreMinimum..ScoreMaximum

\* sendToLLM given a schema: the schema goes out with the request, and what
\* comes back is JSON.parse(res.output_text): a SyntaxError for text that is
\* no JSON, the parsed value otherwise
SyntaxError == [threw |-> TRUE, score |-> 0]

sendToLLM(payload) ==
  IF payload.json THEN [threw |-> FALSE, score |-> payload.score]
  ELSE SyntaxError

\* lines of a review inside a whole run
ShortLines ==
  {<<>>, <<<<"q">>>>, <<<<"c">>>>, <<<<"d">>, <<"1">>>>, <<<<"e">>, <<"1">>>>,
   <<<<"a">>>>}

\* --------------------------------------------------------------- draftCV
byScoreDesc(a, b) == b.score - a.score

\* x.localeCompare(y) on the from values of the profiles
FromRank(t) ==
  CASE t = "" -> 0 [] t = "2019-03" -> 1 [] t = "2021-06" -> 2

localeCompare(x, y) == FromRank(x) - FromRank(y)

\* byStartDateDesc comparing the other way round
byStartDateDesc_Ascending(a, b) == localeCompare(OrEmpty(a.from), OrEmpty(b.from))

byStartDateDesc(a, b) == localeCompare(OrEmpty(b.from), OrEmpty(a.from))

\* the call cmp(a, b) of the comparator that sort was given, by its name
Compare(cmp, a, b) ==
  IF cmp = "byScoreDesc" THEN byScoreDesc(a, b) ELSE byStartDateDesc(a, b)

\* Array.prototype.sort is stable: x goes behind every element that does not
\* compare after it
RECURSIVE InsertBy(_, _, _)
InsertBy(cmp, x, sorted) ==
  IF sorted = <<>> THEN <<x>>
  ELSE IF Compare(cmp, Head(sorted), x) <= 0
    THEN <<Head(sorted)>> \o InsertBy(cmp, x, Tail(sorted))
    ELSE <<x>> \o sorted

RECURSIVE SortBy(_, _)
SortBy(cmp, l) ==
  IF l = <<>> THEN <<>>
  ELSE InsertBy(cmp, l[Len(l)], SortBy(cmp, SubSeq(l, 1, Len(l) - 1)))

\* l.slice(0, 10)
TopN == 10

Slice(l, n) == SubSeq(l, 1, Min(n, Len(l)))

\* the fixed threshold of draftCV
RelevanceThreshold == 80

\* SelectTop without the sort
SelectTop_NoSort(withRelevance) ==
  LET top == Slice(withRelevance, TopN)
  IN [i \in 1..Len(top) |-> top[i].item]

\* skillsWithRelevance.sort(byScoreDesc); ....slice(0, 10).map(s => s.skill)
SelectTop(withRelevance) ==
  LET top == Slice(SortBy("byScoreDesc", withRelevance), TopN)
  IN [i \in 1..Len(top) |-> top[i].item]

\* IncludeRole that never deletes the description
IncludeRole_KeepsAll(role, score) == role

\* IncludeRole with a threshold on the 1-10 scale
IncludeRole_ScaleOfTen(role, score) ==
  IF score < 8
    THEN [role EXCEPT !.description = AbsentStr]
    ELSE role

\* const includeRole = { ...role }; if (score < 80) delete includeRole.description
IncludeRole(role, score) ==
  IF score < RelevanceThreshold
    THEN [role EXCEPT !.description = AbsentStr]
    ELSE role

EmptyCV == [skills |-> <<>>, achievements |-> <<>>, pastJobRoles |-> <<>>]

\* ------------------------------------------------------------------- state
VARIABLES
  pc,            \* position of polishCV / the review loop
  cvMarkdown,    \* the document polishCV was given
  suggestions,   \* what suggestCVImprovements returned
  list,          \* the live list of the review loop
  loop,          \* "NotStarted", "Reviewing", "Applying", "Aborted"
  line,          \* the line of the current iteration of the loop
  idx,           \* 0-based index the current iteration edits
  reply,         \* the answer to the edit prompt of the current iteration
  prevList,      \* the live list as the current iteration found it
  branch,        \* the branch of the loop body the current iteration took
  report,        \* what the current iteration printed about its line
  approvedList,  \* what reviewSuggestionsInteractively returned
  applyCalls,    \* calls of applyCVEdits made so far
  applyArg,      \* the list given to applyCVEdits
  result,        \* what polishCV returned
  mpc,           \* position of the run: module, main, loop, runOnce, draftCV
  key,           \* process.env.OPENAI_API_KEY
  argv,          \* the parsed command line
  jobCfg,        \* the job runtime config as read
  job,           \* const job of main
  attempt,       \* let attempt of main
  maxAttempts,   \* const maxAttempts of main
  inLoop,        \* runOnce was called by loop (not by main's else branch)
  viaTimer,      \* the running loop() was started by the timer
  coveringLetterThoughts,  \* runOnce: the notes as read
  cvBaseData,    \* runOnce: the profile as read
  jobInfo,       \* runOnce: what fetchJobDescription answered
  openStatus,    \* runOnce: what applicationStillOpen answered
  cv,            \* draftCV: the CV input being built
  scored,        \* draftCV: the list the current scoring loop has filled
  answered,      \* draftCV: the scores answered so far, per list in profile order
  composed,      \* draftCV: the markdown composeCVMarkdown answered
  cvOut,         \* runOnce: const cv, what draftCV returned
  letterArg,     \* the profile given to draftCoveringLetter
  emitted,       \* what runOnce printed as letter and CV
  days,          \* runOnce: const days
  res,           \* what runOnce returned
  timer,         \* the pending setTimeout(loop, safeMs)
  exitCode,      \* how the process ended
  printed,       \* the error message printed at the end
  trace,         \* steps the current attempt has completed, in order
  llmCalled      \* a model call has been issued

run == <<mpc, key, argv, jobCfg, job, attempt, maxAttempts, inLoop, viaTimer,
         coveringLetterThoughts, cvBaseData, jobInfo, openStatus, cv, scored,
         answered, composed, cvOut, letterArg, emitted, days, res, timer, exitCode,
         printed, trace, llmCalled>>

vars == <<pc, cvMarkdown, suggestions, list, loop, line, idx, reply, prevList,
          branch, report, approvedList, applyCalls, applyArg, result, run>>

polish == <<cvMarkdown, suggestions, applyCalls, applyArg, result>>

\* ------------------------------------------------ what the operator typed
\* The words that follow the command word, read the way the command table
\* documents them: an index is a decimal numeral, an index list is numerals
\* and ranges numeral-numeral separated by commas, blanks allowed around the
\* commas.  These definitions describe the input; the loop does not use them.
IsNumeral(p) == p # <<>> /\ \A k \in 1..Len(p) : p[k] \in Digits

RECURSIVE Decimal(_)
Decimal(p) ==
  IF p = <<>> THEN 0
  ELSE Decimal(SubSeq(p, 1, Len(p) - 1)) * 10 + DigitVal(p[Len(p)])

IsSignedNumeral(p) ==
  IsNumeral(p) \/ (Len(p) >= 2 /\ p[1] = "-" /\ IsNumeral(Tail(p)))

SignedDecimal(p) == IF p[1] = "-" THEN 0 - Decimal(Tail(p)) ELSE Decimal(p)

IsRangeItem(p) ==
  \E k \in 2..(Len(p) - 1) :
    p[k] = "-" /\ IsNumeral(SubSeq(p, 1, k - 1)) /\ IsNumeral(SubSeq(p, k + 1, Len(p)))

\* the positions a numeral or a range a-b names (a range in either order)
ItemNames(p) ==
  IF IsNumeral(p) THEN {Decimal(p)}
  ELSE LET k == CHOOSE j \in 2..(Len(p) - 1) : p[j] = "-"
           a == Decimal(SubSeq(p, 1, k - 1))
           b == Decimal(SubSeq(p, k + 1, Len(p)))
       IN {i \in 0..(a + b) : (a <= i /\ i <= b) \/ (b <= i /\ i <= a)}

\* every blank of the typed text touches a comma
BlanksAtCommas(typed) ==
  \A k \in 1..(Len(typed) - 1) :
    typed[k][Len(typed[k])] = "," \/ typed[k + 1][1] = ","

RECURSIVE Concat(_)
Concat(ws) == IF ws = <<>> THEN <<>> ELSE Head(ws) \o Concat(Tail(ws))

TypedIsList(typed) ==
  /\ typed # <<>>
  /\ BlanksAtCommas(typed)
  /\ LET items == Split(Concat(typed), ",")
     IN \A k \in 1..Len(items) : IsNumeral(items[k]) \/ IsRangeItem(items[k])

TypedListNames(typed) ==
  LET items == Split(Concat(typed), ",")
  IN UNION {ItemNames(items[k]) : k \in 1..Len(items)}

TypedIsIndex(typed) == Len(typed) = 1 /\ IsSignedNumeral(typed[1])

\* The second word of the line, read by its leading digits: the longest
\* prefix that is a (signed) numeral, whatever follows it.
LeadLen(w) ==
  LET ks == {k \in 1..Len(w) : IsSignedNumeral(SubSeq(w, 1, k))}
  IN IF ks = {} THEN 0 ELSE CHOOSE k \in ks : \A j \in ks : j <= k

HasLead(w) == LeadLen(w) > 0

LeadValue(w) == SignedDecimal(SubSeq(w, 1, LeadLen(w)))

PartReadsAs(part, i) ==
  IF Includes(part, "-")
    THEN LET pieces == Split(part, "-")
         IN /\ HasLead(pieces[1]) /\ HasLead(pieces[2])
            /\ \/ LeadValue(pieces[1]) <= i /\ i <= LeadValue(pieces[2])
               \/ LeadValue(pieces[2]) <= i /\ i <= LeadValue(pieces[1])
    ELSE HasLead(part) /\ LeadValue(part) = i

RestListReadsAs(rest, len) ==
  LET parts == Split(rest, ",")
  IN {i \in 1..len : \E k \in 1..Len(parts) : PartReadsAs(parts[k], i)}

RestIndexReadsAs(rest, len) ==
  {i \in 1..len : HasLead(rest) /\ LeadValue(rest) = i}

\* ----------------------------------------------------------------- actions
NoScores == [skills |-> <<>>, achievements |-> <<>>, roles |-> <<>>]

NoTimer == [armed |-> FALSE, seconds |-> 0, clamped |-> FALSE]

NoResult == [gotJob |-> FALSE, nextRun |-> AbsentNum]

NothingEmitted == [letter |-> "none", cv |-> "none"]

\* nothing of a run has happened
RunIdle ==
  /\ mpc = "module"
  /\ key = "absent"
  /\ argv = NoArgv
  /\ jobCfg = NoJobCfg
  /\ job = "none"
  /\ attempt = 0
  /\ maxAttempts = 0
  /\ inLoop = FALSE
  /\ viaTimer = FALSE
  /\ coveringLetterThoughts = "none"
  /\ cvBaseData = NoProfile
  /\ jobInfo = "none"
  /\ openStatus = FALSE
  /\ cv = EmptyCV
  /\ scored = <<>>
  /\ answered = NoScores
  /\ composed = "none"
  /\ cvOut = "none"
  /\ letterArg = NoProfile
  /\ emitted = NothingEmitted
  /\ days = 0
  /\ res = NoResult
  /\ timer = NoTimer
  /\ exitCode = -1
  /\ printed = "none"
  /\ trace = <<>>
  /\ llmCalled = FALSE

\* polishCV has not been called
PolishIdle ==
  /\ pc = "idle"
  /\ cvMarkdown = "none"
  /\ suggestions = Missing
  /\ list = <<>>
  /\ loop = "NotStarted"
  /\ line = <<>>
  /\ idx = -1
  /\ reply = <<>>
  /\ prevList = <<>>
  /\ branch = "none"
  /\ report = "none"
  /\ approvedList = <<>>
  /\ applyCalls = 0
  /\ applyArg = <<>>
  /\ result = "none"

\* polishCV(cvMarkdown) has just been called, on its own
Init ==
  /\ pc = "suggest"
  /\ cvMarkdown = "cv0"
  /\ suggestions = Missing
  /\ list = <<>>
  /\ loop = "NotStarted"
  /\ line = <<>>
  /\ idx = -1
  /\ reply = <<>>
  /\ prevList = <<>>
  /\ branch = "none"
  /\ report = "none"
  /\ approvedList = <<>>
  /\ applyCalls = 0
  /\ applyArg = <<>>
  /\ result = "none"
  /\ RunIdle

\* SuggestCVImprovements without polishCV's test for no suggestions
SuggestCVImprovements_NoShortCircuit ==
  /\ pc = "suggest"
  /\ \E s \in SuggestionResponses :
       /\ suggestions' = s
       /\ pc' = "top"
       /\ list' = [i \in 1..Len(s.items) |-> s.items[i]]
       /\ loop' = "Reviewing"
       /\ UNCHANGED result
  /\ UNCHANGED <<cvMarkdown, line, idx, reply, prevList, branch, report,
                 approvedList, applyCalls, applyArg>>
  /\ UNCHANGED run

\* polishCV up to the review loop: the suggestions arrive; none (or no
\* suggestions field) returns the document as it is, otherwise the loop
\* starts on a copy of the list.
SuggestCVImprovements ==
  /\ pc = "suggest"
  /\ \E s \in SuggestionResponses :
       /\ suggestions' = s
       /\ IF ~s.has \/ Len(s.items) = 0
            THEN /\ pc' = "done"
                 /\ result' = cvMarkdown
                 /\ UNCHANGED <<list, loop>>
            ELSE /\ pc' = "top"
                 /\ list' = [i \in 1..Len(s.items) |-> s.items[i]]
                 /\ loop' = "Reviewing"
                 /\ UNCHANGED result
  /\ UNCHANGED <<cvMarkdown, line, idx, reply, prevList, branch, report,
                 approvedList, applyCalls, applyArg>>
  /\ UNCHANGED run

\* the model call of suggestCVImprovements throws
SuggestCVImprovementsFails ==
  /\ pc = "suggest"
  /\ pc' = "failed"
  /\ UNCHANGED <<cvMarkdown, suggestions, list, loop, line, idx, reply, prevList,
                 branch, report, approvedList, applyCalls, applyArg, result>>
  /\ UNCHANGED run

\* top of for (;;): a new iteration prints the list and the commands and
\* asks for a line; the locals of the previous iteration are gone
Prompt ==
  /\ pc = "top"
  /\ pc' = "review"
  /\ line' = <<>>
  /\ idx' = -1
  /\ reply' = <<>>
  /\ prevList' = list
  /\ branch' = "none"
  /\ report' = "none"
  /\ UNCHANGED <<list, loop, approvedList, polish>>
  /\ UNCHANGED run

\* const line = (await rl.question('> ')).trim(): the operator's line
\* arrives, one of the lines in S
ReadLineFrom(S) ==
  /\ pc = "review"
  /\ \E l \in S : line' = l
  /\ pc' = "line"
  /\ UNCHANGED <<list, loop, idx, reply, prevList, branch, report, approvedList,
                 polish>>
  /\ UNCHANGED run

ReadLine == ReadLineFrom(Lines)

\* the same inside a whole run, on fewer lines
ReadShortLine == ReadLineFrom(ShortLines)

\* const [cmd, restRaw] = line.split(/\s+/, 2); const rest = restRaw || ''
Cmd(l) == l[1]

Rest(l) == IF Len(l) >= 2 THEN l[2] ELSE <<>>

\* if (!line) continue
BlankLine ==
  /\ pc = "line"
  /\ line = <<>>
  /\ pc' = "top"
  /\ branch' = "blank"
  /\ UNCHANGED <<list, loop, line, idx, reply, prevList, report, approvedList,
                 polish>>
  /\ UNCHANGED run

\* CmdQuit returning the live list instead of []
CmdQuit_ReturnsList ==
  /\ pc = "line"
  /\ line # <<>>
  /\ line[1] = <<"q">>
  /\ loop' = "Aborted"
  /\ approvedList' = list
  /\ pc' = "done"
  /\ result' = cvMarkdown
  /\ branch' = "quit"
  /\ UNCHANGED <<list, line, idx, reply, prevList, report, cvMarkdown, suggestions,
                 applyCalls, applyArg>>
  /\ UNCHANGED run

\* if (cmd === 'q') return []; polishCV then returns the document as it is
CmdQuit ==
  /\ pc = "line"
  /\ line # <<>>
  /\ Cmd(line) = <<"q">>
  /\ loop' = "Aborted"
  /\ approvedList' = <<>>
  /\ pc' = "done"
  /\ result' = cvMarkdown
  /\ branch' = "quit"
  /\ UNCHANGED <<list, line, idx, reply, prevList, report, cvMarkdown, suggestions,
                 applyCalls, applyArg>>
  /\ UNCHANGED run

\* CmdContinue handing the suggestions as first returned to applyCVEdits
CmdContinue_PassesOriginal ==
  /\ pc = "line"
  /\ line # <<>>
  /\ line[1] = <<"c">>
  /\ loop' = "Applying"
  /\ approvedList' = list
  /\ IF Len(list) = 0
       THEN /\ pc' = "done"
            /\ result' = cvMarkdown
            /\ UNCHANGED <<applyCalls, applyArg>>
       ELSE /\ pc' = "apply"
            /\ applyCalls' = applyCalls + 1
            /\ applyArg' = suggestions.items
            /\ UNCHANGED result
  /\ branch' = "continue"
  /\ UNCHANGED <<list, line, idx, reply, prevList, report, cvMarkdown, suggestions>>
  /\ UNCHANGED run

\* CmdContinue that returns only when the list is not empty
CmdContinue_StaysWhenEmpty ==
  /\ pc = "line"
  /\ line # <<>>
  /\ line[1] = <<"c">>
  /\ IF Len(list) = 0
       THEN /\ pc' = "top"
            /\ UNCHANGED <<loop, approvedList, applyCalls, applyArg, result>>
       ELSE /\ loop' = "Applying"
            /\ approvedList' = list
            /\ pc' = "apply"
            /\ applyCalls' = applyCalls + 1
            /\ applyArg' = list
            /\ UNCHANGED result
  /\ branch' = "continue"
  /\ UNCHANGED <<list, line, idx, reply, prevList, report, cvMarkdown, suggestions>>
  /\ UNCHANGED run

\* CmdContinue without polishCV's test for an empty approved list
CmdContinue_AppliesEmpty ==
  /\ pc = "line"
  /\ line # <<>>
  /\ line[1] = <<"c">>
  /\ loop' = "Applying"
  /\ approvedList' = list
  /\ pc' = "apply"
  /\ applyCalls' = applyCalls + 1
  /\ applyArg' = list
  /\ branch' = "continue"
  /\ UNCHANGED <<list, line, idx, reply, prevList, report, cvMarkdown, suggestions,
                 result>>
  /\ UNCHANGED run

\* if (cmd === 'c') return list; polishCV returns the document as it is when
\* the list is empty, otherwise calls applyCVEdits(cvMarkdown, approvedList)
CmdContinue ==
  /\ pc = "line"
  /\ line # <<>>
  /\ Cmd(line) = <<"c">>
  /\ loop' = "Applying"
  /\ approvedList' = list
  /\ IF Len(list) = 0
       THEN /\ pc' = "done"
            /\ result' = cvMarkdown
            /\ UNCHANGED <<applyCalls, applyArg>>
       ELSE /\ pc' = "apply"
            /\ applyCalls' = applyCalls + 1
            /\ applyArg' = list
            /\ UNCHANGED result
  /\ branch' = "continue"
  /\ UNCHANGED <<list, line, idx, reply, prevList, report, cvMarkdown, suggestions>>
  /\ UNCHANGED run

\* CmdDelete without the test for the word a
CmdDelete_NoAll ==
  /\ pc = "line"
  /\ line # <<>>
  /\ line[1] = <<"d">>
  /\ LET rest == IF Len(line) >= 2 THEN line[2] ELSE <<>>
         idxs == parseIndexList(rest, Len(list))
     IN IF Len(idxs) = 0
          THEN /\ list' = list
               /\ branch' = "noValid"
               /\ report' = "No valid indices."
          ELSE /\ list' = FilterOut(list, idxs, 0)
               /\ branch' = "deleted"
               /\ report' = "none"
  /\ pc' = "top"
  /\ UNCHANGED <<loop, line, idx, reply, prevList, approvedList, polish>>
  /\ UNCHANGED run

\* if (cmd === 'd') { ... }
CmdDelete ==
  /\ pc = "line"
  /\ line # <<>>
  /\ Cmd(line) = <<"d">>
  /\ LET rest == Rest(line)
         idxs == parseIndexList(rest, Len(list))
     IN IF rest = <<"a">>
          THEN /\ list' = <<>>
               /\ branch' = "deleteAll"
               /\ report' = "none"
          ELSE IF Len(idxs) = 0
            THEN /\ list' = list
                 /\ branch' = "noValid"
                 /\ report' = "No valid indices."
            ELSE /\ list' = FilterOut(list, idxs, 0)
                 /\ branch' = "deleted"
                 /\ report' = "none"
  /\ pc' = "top"
  /\ UNCHANGED <<loop, line, idx, reply, prevList, approvedList, polish>>
  /\ UNCHANGED run

\* OutOfRange letting the index one past the end through
OutOfRange_OffByOne(i, len) == i < 0 \/ i > len

\* idx < 0 || idx >= list.length
OutOfRange(i, len) == i < 0 \/ i >= len

\* if (cmd === 'e') { ... } up to the edit prompt
CmdEdit ==
  /\ pc = "line"
  /\ line # <<>>
  /\ Cmd(line) = <<"e">>
  /\ LET n == ParseInt(Rest(line))
     IN IF ~IsInteger(n) \/ OutOfRange(n.val - 1, Len(list))
          THEN /\ pc' = "top"
               /\ branch' = "outOfRange"
               /\ report' = "Out of range."
               /\ UNCHANGED idx
          ELSE /\ pc' = "edit"
               /\ idx' = n.val - 1
               /\ branch' = "editPrompt"
               /\ report' = "none"
  /\ UNCHANGED <<list, loop, line, reply, prevList, approvedList, polish>>
  /\ UNCHANGED run

\* EditReply without the trim of the answer
EditReply_NoTrim ==
  /\ pc = "edit"
  /\ \E r \in Replies :
       LET item == IF r # <<>>
                     THEN [list[idx + 1] EXCEPT !.suggestion = r]
                     ELSE list[idx + 1]
       IN /\ list' = [list EXCEPT ![idx + 1] = item]
          /\ reply' = r
  /\ pc' = "top"
  /\ branch' = "edited"
  /\ UNCHANGED <<loop, line, idx, prevList, report, approvedList, polish>>
  /\ UNCHANGED run

\* EditReply on a live list that shares its objects with the caller's array
\* (suggestions.map((s) => s), item = list[idx])
EditReply_EditsCallerObject ==
  /\ pc = "edit"
  /\ \E r \in Replies :
       LET newSug == Trim(r)
           item == IF newSug # <<>>
                     THEN [list[idx + 1] EXCEPT !.suggestion = newSug]
                     ELSE list[idx + 1]
           shared == {k \in 1..Len(suggestions.items) :
                        suggestions.items[k] = list[idx + 1]}
       IN /\ list' = [list EXCEPT ![idx + 1] = item]
          /\ suggestions' =
               [suggestions EXCEPT
                  !.items = [k \in 1..Len(suggestions.items) |->
                               IF k \in shared THEN item ELSE suggestions.items[k]]]
          /\ reply' = r
  /\ pc' = "top"
  /\ branch' = "edited"
  /\ UNCHANGED <<loop, line, idx, prevList, report, approvedList, cvMarkdown,
                 applyCalls, applyArg, result>>
  /\ UNCHANGED run

\* the answer to the edit prompt: newSug = (await ask(...)).trim();
\* if (newSug) item.suggestion = newSug; list[idx] = item
EditReply ==
  /\ pc = "edit"
  /\ \E r \in Replies :
       LET newSug == Trim(r)
           item == IF newSug # <<>>
                     THEN [list[idx + 1] EXCEPT !.suggestion = newSug]
                     ELSE list[idx + 1]
       IN /\ list' = [list EXCEPT ![idx + 1] = item]
          /\ reply' = r
  /\ pc' = "top"
  /\ branch' = "edited"
  /\ UNCHANGED <<loop, line, idx, prevList, report, approvedList, polish>>
  /\ UNCHANGED run

\* CmdUnknown leaving the loop with the live list
CmdUnknown_Returns ==
  /\ pc = "line"
  /\ line # <<>>
  /\ line[1] \notin {<<"q">>, <<"c">>, <<"d">>, <<"e">>}
  /\ pc' = "done"
  /\ loop' = "Applying"
  /\ approvedList' = list
  /\ branch' = "unknown"
  /\ report' = "Unknown command."
  /\ UNCHANGED <<list, line, idx, reply, prevList, polish>>
  /\ UNCHANGED run

\* console.log('Unknown command.')
CmdUnknown ==
  /\ pc = "line"
  /\ line # <<>>
  /\ Cmd(line) \notin {<<"q">>, <<"c">>, <<"d">>, <<"e">>}
  /\ pc' = "top"
  /\ branch' = "unknown"
  /\ report' = "Unknown command."
  /\ UNCHANGED <<list, loop, line, idx, reply, prevList, approvedList, polish>>
  /\ UNCHANGED run

\* applyCVEdits answers: polishCV returns the revised document
ApplyCVEdits ==
  /\ pc = "apply"
  /\ \E d \in Docs : result' = d
  /\ pc' = "done"
  /\ UNCHANGED <<cvMarkdown, suggestions, list, loop, line, idx, reply, prevList,
                 branch, report, approvedList, applyCalls, applyArg>>
  /\ UNCHANGED run

\* the model call of applyCVEdits throws
ApplyCVEditsFails ==
  /\ pc = "apply"
  /\ pc' = "failed"
  /\ UNCHANGED <<cvMarkdown, suggestions, list, loop, line, idx, reply, prevList,
                 branch, report, approvedList, applyCalls, applyArg, result>>
  /\ UNCHANGED run


Next ==
  \/ SuggestCVImprovements
  \/ SuggestCVImprovementsFails
  \/ Prompt
  \/ ReadLine
  \/ BlankLine
  \/ CmdQuit
  \/ CmdContinue
  \/ CmdDelete
  \/ CmdEdit
  \/ EditReply
  \/ CmdUnknown
  \/ ApplyCVEdits
  \/ ApplyCVEditsFails

Spec == Init /\ [][Next]_vars

\* ------------------------------------------------------------- a whole run
polishVars ==
  <<pc, cvMarkdown, suggestions, list, loop, line, idx, reply, prevList,
    branch, report, approvedList, applyCalls, applyArg, result>>

settings == <<key, argv, jobCfg, job, maxAttempts>>

locals ==
  <<coveringLetterThoughts, cvBaseData, jobInfo, openStatus, cv, scored,
    answered, composed, cvOut, letterArg, emitted, days, res>>

RunInit == RunIdle /\ PolishIdle

\* an error leaves the run: main().catch prints it and calls process.exit(1);
\* thrown in a loop() the timer started, nothing awaits it and the runtime
\* ends the process on the unhandled rejection
Fatal ==
  /\ mpc' = "exited"
  /\ exitCode' = 1
  /\ printed' = IF viaTimer THEN "unhandled rejection" ELSE "main().catch"

\* module evaluation: new OpenAI({ apiKey: process.env.OPENAI_API_KEY }) is
\* library code, which may refuse an absent key by throwing before main runs
LoadModule ==
  /\ mpc = "module"
  /\ \E k \in Keys :
       /\ key' = k
       /\ \/ /\ mpc' = "main"
             /\ UNCHANGED <<exitCode, printed>>
          \/ /\ k = "absent"
             /\ mpc' = "exited"
             /\ exitCode' = 1
             /\ printed' = "uncaught exception"
  /\ UNCHANGED <<argv, jobCfg, job, maxAttempts, attempt, inLoop, viaTimer,
                 locals, timer, trace, llmCalled, polishVars>>

\* main: assertEnv(); yargs(...).parse(); readJSON(argv.jobcfg) is called
AssertEnv ==
  /\ mpc = "main"
  /\ IF key # "set"
       THEN /\ Fatal
            /\ UNCHANGED argv
       ELSE /\ \E a \in Argvs : argv' = a
            /\ mpc' = "jobcfg"
            /\ UNCHANGED <<exitCode, printed>>
  /\ UNCHANGED <<key, jobCfg, job, maxAttempts, attempt, inLoop, viaTimer,
                 locals, timer, trace, llmCalled, polishVars>>

\* main: the config arrives; job, attempt, maxAttempts; then loop() or
\* runOnce() runs up to its first await, readText(notesPath)
ReadJobCfg_NoJobDefault ==
  /\ mpc = "jobcfg"
  /\ \E c \in JobCfgs :
       /\ jobCfg' = c
       /\ job' = IF argv.job # "none" THEN argv.job
                 ELSE IF c.job # "none" THEN c.job ELSE "j"
       /\ maxAttempts' = Coalesce(c.maxAttempts, DefaultMaxAttempts)
       /\ inLoop' = (argv.daemon \/ c.daemon)
       /\ attempt' = IF argv.daemon \/ c.daemon THEN 1 ELSE 0
       /\ mpc' = "notes"
       /\ UNCHANGED <<exitCode, printed>>
  /\ trace' = <<>>
  /\ UNCHANGED <<key, argv, viaTimer, locals, timer, llmCalled, polishVars>>

ReadJobCfg ==
  /\ mpc = "jobcfg"
  /\ \E c \in JobCfgs :
       /\ jobCfg' = c
       /\ job' = IF argv.job # "none" THEN argv.job ELSE c.job
       /\ IF argv.job = "none" /\ c.job = "none"
            THEN /\ Fatal
                 /\ UNCHANGED <<maxAttempts, inLoop, attempt>>
            ELSE /\ maxAttempts' = Coalesce(c.maxAttempts, DefaultMaxAttempts)
                 /\ inLoop' = (argv.daemon \/ c.daemon)
                 /\ attempt' = IF argv.daemon \/ c.daemon THEN 1 ELSE 0
                 /\ mpc' = "notes"
                 /\ UNCHANGED <<exitCode, printed>>
  /\ trace' = <<>>
  /\ UNCHANGED <<key, argv, viaTimer, locals, timer, llmCalled, polishVars>>

\* positions at which the run awaits a file read or a model call
Awaiting ==
  {"jobcfg", "notes", "profile", "fetch", "open", "skills", "achievements",
   "roles", "compose", "letter"}

\* the awaited file read or model call throws: the file or the service fails,
\* or JSON.parse in sendToLLM meets text that is no JSON
Throws ==
  /\ mpc \in Awaiting
  /\ Fatal
  /\ UNCHANGED <<settings, attempt, inLoop, viaTimer, locals, timer, trace,
                 llmCalled, polishVars>>

\* runOnce: the notes arrive; readJSON(cvBasePath) is called
ReadNotes ==
  /\ mpc = "notes"
  /\ coveringLetterThoughts' = "notes"
  /\ mpc' = "profile"
  /\ trace' = Append(trace, "notes")
  /\ UNCHANGED <<settings, attempt, inLoop, viaTimer, cvBaseData, jobInfo,
                 openStatus, cv, scored, answered, composed, cvOut, letterArg,
                 emitted,
                 days, res, timer, exitCode, printed, llmCalled, polishVars>>

\* runOnce: the profile arrives; fetchJobDescription(job) is called
ReadProfile ==
  /\ mpc = "profile"
  /\ \E p \in RunProfiles : cvBaseData' = p
  /\ mpc' = "fetch"
  /\ llmCalled' = TRUE
  /\ trace' = Append(trace, "profile")
  /\ UNCHANGED <<settings, attempt, inLoop, viaTimer, coveringLetterThoughts,
                 jobInfo, openStatus, cv, scored, answered, composed, cvOut, letterArg,
                 emitted, days, res, timer, exitCode, printed, polishVars>>

\* runOnce: the job description arrives; applicationStillOpen(job) is called
FetchJobDescription ==
  /\ mpc = "fetch"
  /\ jobInfo' = "job description"
  /\ mpc' = "open"
  /\ trace' = Append(trace, "fetch")
  /\ UNCHANGED <<settings, attempt, inLoop, viaTimer, coveringLetterThoughts,
                 cvBaseData, openStatus, cv, scored, answered, composed, cvOut,
                 letterArg,
                 emitted, days, res, timer, exitCode, printed, llmCalled,
                 polishVars>>

\* draftCV: the first scoring loop with something to score, after the loop
\* over skills, over achievements, over past roles
StageAfterAchievements(p) ==
  IF p.pastJobRoles # <<>> THEN "roles" ELSE "compose"

StageAfterSkills(p) ==
  IF p.achievements # <<>> THEN "achievements" ELSE StageAfterAchievements(p)

\* StageAfterOpen leaving out the loop over skills
StageAfterOpen_SkipsSkills(p) == StageAfterSkills(p)

StageAfterOpen(p) ==
  IF p.skills # <<>> THEN "skills" ELSE StageAfterSkills(p)

\* ApplicationStillOpen going on to draftCV although applications are closed
ApplicationStillOpen_IgnoresClosed ==
  /\ mpc = "open"
  /\ \E o \in BOOLEAN :
       /\ openStatus' = o
       /\ mpc' = StageAfterOpen(cvBaseData)
       /\ trace' = IF ~o THEN trace \o <<"open", "closed">>
                         ELSE Append(trace, "open")
       /\ UNCHANGED res
  /\ UNCHANGED <<settings, attempt, inLoop, viaTimer, coveringLetterThoughts,
                 cvBaseData, jobInfo, cv, scored, answered, composed, cvOut, letterArg,
                 emitted, days, timer, exitCode, printed, llmCalled, polishVars>>

\* runOnce: the open status arrives; closed returns { gotJob: false,
\* nextRun: null }, open enters draftCV up to its first model call
ApplicationStillOpen ==
  /\ mpc = "open"
  /\ \E o \in BOOLEAN :
       /\ openStatus' = o
       /\ IF ~o
            THEN /\ res' = [gotJob |-> FALSE, nextRun |-> AbsentNum]
                 /\ mpc' = "returned"
                 /\ trace' = trace \o <<"open", "closed">>
            ELSE /\ mpc' = StageAfterOpen(cvBaseData)
                 /\ trace' = Append(trace, "open")
                 /\ UNCHANGED res
  /\ UNCHANGED <<settings, attempt, inLoop, viaTimer, coveringLetterThoughts,
                 cvBaseData, jobInfo, cv, scored, answered, composed, cvOut, letterArg,
                 emitted, days, timer, exitCode, printed, llmCalled, polishVars>>

draftFrame ==
  <<settings, attempt, inLoop, viaTimer, coveringLetterThoughts, cvBaseData,
    jobInfo, openStatus, composed, cvOut, letterArg, emitted, days, res,
    timer, exitCode, printed, llmCalled, polishVars>>

\* draftCV: the score of the next skill arrives; after the last one the
\* scored skills are sorted and the first ten go into the CV input
ScoreSkill ==
  /\ mpc = "skills"
  /\ \E payload \in SkillPayloads :
       LET answer == sendToLLM(payload)
           score == answer.score
           skill == cvBaseData.skills[Len(scored) + 1]
           skillsWithRelevance == Append(scored, [item |-> skill, score |-> score])
       IN /\ ~answer.threw
          /\ answered' = [answered EXCEPT !.skills = Append(@, score)]
          /\ IF Len(skillsWithRelevance) < Len(cvBaseData.skills)
               THEN /\ scored' = skillsWithRelevance
                    /\ UNCHANGED <<cv, mpc>>
               ELSE /\ cv' = [cv EXCEPT !.skills = SelectTop(skillsWithRelevance)]
                    /\ scored' = <<>>
                    /\ mpc' = StageAfterSkills(cvBaseData)
  /\ trace' = Append(trace, "skill")
  /\ UNCHANGED draftFrame

\* draftCV: the same for the achievements
ScoreAchievement ==
  /\ mpc = "achievements"
  /\ \E payload \in SkillPayloads :
       LET answer == sendToLLM(payload)
           score == answer.score
           achievement == cvBaseData.achievements[Len(scored) + 1]
           achievementsWithRelevance ==
             Append(scored, [item |-> achievement, score |-> score])
       IN /\ ~answer.threw
          /\ answered' = [answered EXCEPT !.achievements = Append(@, score)]
          /\ IF Len(achievementsWithRelevance) < Len(cvBaseData.achievements)
               THEN /\ scored' = achievementsWithRelevance
                    /\ UNCHANGED <<cv, mpc>>
               ELSE /\ cv' = [cv EXCEPT
                                !.achievements = SelectTop(achievementsWithRelevance)]
                    /\ scored' = <<>>
                    /\ mpc' = StageAfterAchievements(cvBaseData)
  /\ trace' = Append(trace, "achievement")
  /\ UNCHANGED draftFrame

\* ScoreRole with includeRole = role for { ...role }: the delete goes to the
\* profile's own role
ScoreRole_DeletesInPlace ==
  /\ mpc = "roles"
  /\ \E payload \in RolePayloads :
       LET answer == sendToLLM(payload)
           score == answer.score
           i == Len(scored) + 1
           role == cvBaseData.pastJobRoles[i]
           rolesToInclude == Append(scored, IncludeRole(role, score))
       IN /\ ~answer.threw
          /\ answered' = [answered EXCEPT !.roles = Append(@, score)]
          /\ cvBaseData' = [cvBaseData EXCEPT
                              !.pastJobRoles[i] = IncludeRole(role, score)]
          /\ IF Len(rolesToInclude) < Len(cvBaseData.pastJobRoles)
               THEN /\ scored' = rolesToInclude
                    /\ UNCHANGED <<cv, mpc>>
               ELSE /\ cv' = [cv EXCEPT !.pastJobRoles =
                                   SortBy("byStartDateDesc", rolesToInclude)]
                    /\ scored' = <<>>
                    /\ mpc' = "compose"
  /\ trace' = Append(trace, "role")
  /\ UNCHANGED <<settings, attempt, inLoop, viaTimer, coveringLetterThoughts,
                 jobInfo, openStatus, composed, cvOut, letterArg, emitted, days,
                 res, timer, exitCode, printed, llmCalled, polishVars>>

\* draftCV: the score of the next past role arrives; after the last one the
\* roles are sorted by start date and composeCVMarkdown(cv) is called
ScoreRole ==
  /\ mpc = "roles"
  /\ \E payload \in RolePayloads :
       LET answer == sendToLLM(payload)
           score == answer.score
           role == cvBaseData.pastJobRoles[Len(scored) + 1]
           rolesToInclude == Append(scored, IncludeRole(role, score))
       IN /\ ~answer.threw
          /\ answered' = [answered EXCEPT !.roles = Append(@, score)]
          /\ IF Len(rolesToInclude) < Len(cvBaseData.pastJobRoles)
               THEN /\ scored' = rolesToInclude
                    /\ UNCHANGED <<cv, mpc>>
               ELSE /\ cv' = [cv EXCEPT !.pastJobRoles =
                                   SortBy("byStartDateDesc", rolesToInclude)]
                    /\ scored' = <<>>
                    /\ mpc' = "compose"
  /\ trace' = Append(trace, "role")
  /\ UNCHANGED draftFrame

\* draftCV: the markdown arrives; polishCV(cv_markdown) is called and runs up
\* to its model call
ComposeCVMarkdown ==
  /\ mpc = "compose"
  /\ pc = "idle"
  /\ composed' = "cv0"
  /\ cvMarkdown' = "cv0"
  /\ pc' = "suggest"
  /\ mpc' = "polish"
  /\ cv' = EmptyCV
  /\ answered' = NoScores
  /\ trace' = Append(trace, "compose")
  /\ UNCHANGED <<settings, attempt, inLoop, viaTimer, coveringLetterThoughts,
                 cvBaseData, jobInfo, openStatus, scored, cvOut, letterArg,
                 emitted, days, res, timer, exitCode, printed, llmCalled>>
  /\ UNCHANGED <<suggestions, list, loop, line, idx, reply, prevList, branch,
                 report, approvedList, applyCalls, applyArg, result>>

\* what polishCV did, for the trace of the attempt
PolishSteps ==
  <<"suggest">>
    \o (IF loop = "Aborted" THEN <<"review", "quit">>
        ELSE IF loop = "Applying" THEN <<"review", "continue">>
        ELSE <<>>)
    \o (IF applyCalls > 0 THEN <<"apply">> ELSE <<>>)

\* PolishCVReturns treating the operator's quit as an error
PolishCVReturns_QuitIsFatal ==
  /\ mpc = "polish"
  /\ pc = "done"
  /\ IF loop = "Aborted"
       THEN /\ Fatal
            /\ UNCHANGED <<cvOut, letterArg, trace, polishVars>>
       ELSE /\ cvOut' = result
            /\ letterArg' = cvBaseData
            /\ mpc' = "letter"
            /\ trace' = trace \o PolishSteps
            /\ pc' = "idle"
            /\ cvMarkdown' = "none"
            /\ suggestions' = Missing
            /\ list' = <<>>
            /\ loop' = "NotStarted"
            /\ line' = <<>>
            /\ idx' = -1
            /\ reply' = <<>>
            /\ prevList' = <<>>
            /\ branch' = "none"
            /\ report' = "none"
            /\ approvedList' = <<>>
            /\ applyCalls' = 0
            /\ applyArg' = <<>>
            /\ result' = "none"
            /\ UNCHANGED <<exitCode, printed>>
  /\ UNCHANGED <<settings, attempt, inLoop, viaTimer, coveringLetterThoughts,
                 cvBaseData, jobInfo, openStatus, cv, scored, answered, composed,
                 emitted, days, res, timer, llmCalled>>

\* polishCV has returned: draftCV returns its result, runOnce keeps it as cv
\* and calls draftCoveringLetter(cvBaseData, coveringLetterThoughts, ...)
PolishCVReturns ==
  /\ mpc = "polish"
  /\ pc = "done"
  /\ cvOut' = result
  /\ letterArg' = cvBaseData
  /\ mpc' = "letter"
  /\ trace' = trace \o PolishSteps
  /\ pc' = "idle"
  /\ cvMarkdown' = "none"
  /\ suggestions' = Missing
  /\ list' = <<>>
  /\ loop' = "NotStarted"
  /\ line' = <<>>
  /\ idx' = -1
  /\ reply' = <<>>
  /\ prevList' = <<>>
  /\ branch' = "none"
  /\ report' = "none"
  /\ approvedList' = <<>>
  /\ applyCalls' = 0
  /\ applyArg' = <<>>
  /\ result' = "none"
  /\ UNCHANGED <<settings, attempt, inLoop, viaTimer, coveringLetterThoughts,
                 cvBaseData, jobInfo, openStatus, cv, scored, answered, composed,
                 emitted, days, res, timer, exitCode, printed, llmCalled>>

\* a model call of polishCV has thrown: nothing on the way up catches it
PolishCVThrows ==
  /\ mpc = "polish"
  /\ pc = "failed"
  /\ Fatal
  /\ UNCHANGED <<settings, attempt, inLoop, viaTimer, locals, timer, trace,
                 llmCalled, polishVars>>

\* runOnce: the letter arrives; letter and CV are printed; gotJob is false, so
\* days = randInt(min || 30, max || 90) and nextRun lies days ahead; returns
DraftCoveringLetter ==
  /\ mpc = "letter"
  /\ emitted' = [letter |-> "letter", cv |-> cvOut]
  /\ \E d \in randInt(OrElse(jobCfg.minReapplyDays, DefaultMinDays),
                      OrElse(jobCfg.maxReapplyDays, DefaultMaxDays)) :
       /\ days' = d
       /\ res' = [gotJob |-> FALSE, nextRun |-> GivenNum(d)]
  /\ mpc' = "returned"
  /\ trace' = trace \o <<"letter", "emit">>
  /\ UNCHANGED <<settings, attempt, inLoop, viaTimer, coveringLetterThoughts,
                 cvBaseData, jobInfo, openStatus, cv, scored, answered, composed,
                 cvOut, letterArg, timer, exitCode, printed, llmCalled,
                 polishVars>>

\* the wait of loop in seconds: nextRun - Date.now(), or 45 days without a
\* nextRun, at least one second (the time runOnce took to return is left out)
WaitSeconds(r) ==
  Max(IF r.nextRun.given THEN r.nextRun.val * SecondsPerDay
                         ELSE FallbackDays * SecondsPerDay, 1)

\* setTimeout(loop, safeMs)
SetTimeout(seconds) ==
  [armed |-> TRUE, seconds |-> seconds, clamped |-> seconds > MaxTimerSeconds]

\* the locals of runOnce and draftCV are gone
LocalsGone ==
  /\ coveringLetterThoughts' = "none"
  /\ cvBaseData' = NoProfile
  /\ jobInfo' = "none"
  /\ openStatus' = FALSE
  /\ cv' = EmptyCV
  /\ scored' = <<>>
  /\ answered' = NoScores
  /\ composed' = "none"
  /\ cvOut' = "none"
  /\ letterArg' = NoProfile
  /\ emitted' = NothingEmitted
  /\ days' = 0
  /\ res' = NoResult

\* AfterRunOnce going on whatever the attempt count is
AfterRunOnce_NoLimit ==
  /\ mpc = "returned"
  /\ IF ~inLoop
       THEN /\ mpc' = "exited"
            /\ exitCode' = 0
            /\ UNCHANGED timer
       ELSE IF res.gotJob \/ argv.once \/ ~argv.daemon
         THEN /\ mpc' = "exited"
              /\ exitCode' = 0
              /\ UNCHANGED timer
         ELSE /\ timer' = SetTimeout(WaitSeconds(res))
              /\ mpc' = "sleeping"
              /\ UNCHANGED exitCode
  /\ LocalsGone
  /\ UNCHANGED <<settings, attempt, inLoop, viaTimer, printed, trace,
                 llmCalled, polishVars>>

\* AfterRunOnce arming a timer only when the attempt chose a next run
AfterRunOnce_SkipsClosed ==
  /\ mpc = "returned"
  /\ IF ~inLoop
       THEN /\ mpc' = "exited"
            /\ exitCode' = 0
            /\ UNCHANGED timer
       ELSE IF res.gotJob \/ attempt >= maxAttempts \/ argv.once \/ ~argv.daemon
                 \/ ~res.nextRun.given
         THEN /\ mpc' = "exited"
              /\ exitCode' = 0
              /\ UNCHANGED timer
         ELSE /\ timer' = SetTimeout(WaitSeconds(res))
              /\ mpc' = "sleeping"
              /\ UNCHANGED exitCode
  /\ LocalsGone
  /\ UNCHANGED <<settings, attempt, inLoop, viaTimer, printed, trace,
                 llmCalled, polishVars>>

\* AfterRunOnce going on when the config's daemon field is set as well
AfterRunOnce_ConfigDaemon ==
  /\ mpc = "returned"
  /\ IF ~inLoop
       THEN /\ mpc' = "exited"
            /\ exitCode' = 0
            /\ UNCHANGED timer
       ELSE IF res.gotJob \/ attempt >= maxAttempts \/ argv.once
                 \/ ~(argv.daemon \/ jobCfg.daemon)
         THEN /\ mpc' = "exited"
              /\ exitCode' = 0
              /\ UNCHANGED timer
         ELSE /\ timer' = SetTimeout(WaitSeconds(res))
              /\ mpc' = "sleeping"
              /\ UNCHANGED exitCode
  /\ LocalsGone
  /\ UNCHANGED <<settings, attempt, inLoop, viaTimer, printed, trace,
                 llmCalled, polishVars>>

\* runOnce has returned. Called by main's else branch, main returns and the
\* process ends with nothing left to do. Called by loop: process.exit(0) on
\* gotJob, on the last attempt, with --once or without --daemon; otherwise
\* the next loop() is put on a timer. Either way the attempt's locals are gone
AfterRunOnce ==
  /\ mpc = "returned"
  /\ IF ~inLoop
       THEN /\ mpc' = "exited"
            /\ exitCode' = 0
            /\ UNCHANGED timer
       ELSE IF res.gotJob \/ attempt >= maxAttempts \/ argv.once \/ ~argv.daemon
         THEN /\ mpc' = "exited"
              /\ exitCode' = 0
              /\ UNCHANGED timer
         ELSE /\ timer' = SetTimeout(WaitSeconds(res))
              /\ mpc' = "sleeping"
              /\ UNCHANGED exitCode
  /\ LocalsGone
  /\ UNCHANGED <<settings, attempt, inLoop, viaTimer, printed, trace,
                 llmCalled, polishVars>>

\* TimerFires of a timer that stays armed (setInterval for setTimeout)
TimerFires_KeepsTimer ==
  /\ mpc = "sleeping"
  /\ timer.armed
  /\ UNCHANGED timer
  /\ viaTimer' = TRUE
  /\ attempt' = attempt + 1
  /\ mpc' = "notes"
  /\ trace' = <<>>
  /\ UNCHANGED <<settings, inLoop, locals, exitCode, printed, llmCalled,
                 polishVars>>

\* the timer fires: loop() counts the attempt and calls runOnce, which runs
\* up to readText(notesPath)
TimerFires ==
  /\ mpc = "sleeping"
  /\ timer.armed
  /\ timer' = NoTimer
  /\ viaTimer' = TRUE
  /\ attempt' = attempt + 1
  /\ mpc' = "notes"
  /\ trace' = <<>>
  /\ UNCHANGED <<settings, inLoop, locals, exitCode, printed, llmCalled,
                 polishVars>>

RunNext ==
  \/ LoadModule
  \/ AssertEnv
  \/ ReadJobCfg
  \/ Throws
  \/ ReadNotes
  \/ ReadProfile
  \/ FetchJobDescription
  \/ ApplicationStillOpen
  \/ ScoreSkill
  \/ ScoreAchievement
  \/ ScoreRole
  \/ ComposeCVMarkdown
  \/ SuggestCVImprovements
  \/ SuggestCVImprovementsFails
  \/ Prompt
  \/ ReadShortLine
  \/ BlankLine
  \/ CmdQuit
  \/ CmdContinue
  \/ CmdDelete
  \/ CmdEdit
  \/ EditReply
  \/ CmdUnknown
  \/ ApplyCVEdits
  \/ ApplyCVEditsFails
  \/ PolishCVReturns
  \/ PolishCVThrows
  \/ DraftCoveringLetter
  \/ AfterRunOnce
  \/ TimerFires

RunSpec == RunInit /\ [][RunNext]_vars

\* the event loop runs what is ready: an answer, a typed line, a timer
RunLive == RunSpec /\ WF_vars(RunNext)

\* ------------------------------------------------- draftCV on its own
\* draftCV(cvBaseData, jobDescription) has been called on one of Profiles and
\* stands at its first model call
DraftInit ==
  /\ PolishIdle
  /\ \E p \in Profiles :
       /\ cvBaseData = p
       /\ mpc = StageAfterOpen(p)
  /\ key = "set"
  /\ argv = NoArgv
  /\ jobCfg = NoJobCfg
  /\ job = "j"
  /\ attempt = 0
  /\ maxAttempts = DefaultMaxAttempts
  /\ inLoop = FALSE
  /\ viaTimer = FALSE
  /\ coveringLetterThoughts = "notes"
  /\ jobInfo = "job description"
  /\ openStatus = TRUE
  /\ cv = EmptyCV
  /\ scored = <<>>
  /\ answered = NoScores
  /\ composed = "none"
  /\ cvOut = "none"
  /\ letterArg = NoProfile
  /\ emitted = NothingEmitted
  /\ days = 0
  /\ res = NoResult
  /\ timer = NoTimer
  /\ exitCode = -1
  /\ printed = "none"
  /\ trace = <<"notes", "profile", "fetch", "open">>
  /\ llmCalled = TRUE

DraftNext ==
  \/ ScoreSkill
  \/ ScoreAchievement
  \/ ScoreRole

DraftSpec == DraftInit /\ [][DraftNext]_vars

\* ------------------------------------------------------------- properties
\* The current iteration has processed its line, whose command word is w:
\* line, prevList, idx and reply still hold what it read and found.
\* (idx and reply are set once the edit prompt is open, resp. answered.)
Processed(w) ==
  /\ pc \in {"top", "edit", "apply", "done", "failed"}
  /\ line # <<>>
  /\ line[1] = w

Typed == Tail(line)

SecondWord == IF Len(line) >= 2 THEN line[2] ELSE <<>>

InLoop(p) == p \in {"top", "review", "line", "edit"}

\* l without the elements at the positions in S
RECURSIVE Without(_, _)
Without(l, S) ==
  IF l = <<>> THEN <<>>
  ELSE Without(SubSeq(l, 1, Len(l) - 1), S)
         \o (IF Len(l) \in S THEN <<>> ELSE <<l[Len(l)]>>)

\* l picks elements of orig in their order, each with its type and location
RECURSIVE Survives(_, _)
Survives(l, orig) ==
  IF l = <<>> THEN TRUE
  ELSE IF orig = <<>> THEN FALSE
  ELSE IF Head(l).type = Head(orig).type /\ Head(l).location = Head(orig).location
    THEN Survives(Tail(l), Tail(orig))
    ELSE Survives(l, Tail(orig))

Blank(r) == \A k \in 1..Len(r) : r[k] = " "

\* t is r without the blanks at its two ends
Stripped(r, t) ==
  /\ t # <<>> /\ t[1] # " " /\ t[Len(t)] # " "
  /\ \E i \in 0..Len(r) :
       /\ i + Len(t) <= Len(r)
       /\ SubSeq(r, i + 1, i + Len(t)) = t
       /\ Blank(SubSeq(r, 1, i))
       /\ Blank(SubSeq(r, i + Len(t) + 1, Len(r)))

\* C1: whatever the live list has become through earlier d, e and unknown
\* commands, a line whose command word is q ends the loop and
\* reviewSuggestionsInteractively returns the empty list.
C1_QuitReturnsEmpty ==
  Processed(<<"q">>) =>
    /\ loop = "Aborted"
    /\ approvedList = <<>>
    /\ ~InLoop(pc)

\* q after a deletion and an edit, with suggestions still in the live list
C1_Witness ==
  /\ Processed(<<"q">>)
  /\ approvedList = <<>>
  /\ list # <<>>
  /\ Len(list) < Len(suggestions.items)
  /\ \E k \in 1..Len(list) : list[k].suggestion # <<"s">>

C3_DeleteRemovesNamed ==
  (Processed(<<"d">>) /\ TypedIsList(Typed)) =>
    list = Without(prevList, TypedListNames(Typed) \cap (1..Len(prevList)))

\* C4 as claimed: a d command whose index list is empty, malformed or names
\* only positions outside [1, length] leaves the list as it was and the loop
\* in Reviewing.
C4_BadListChangesNothing ==
  (/\ Processed(<<"d">>)
   /\ ~(Typed # <<>> /\ Typed[1] = <<"a">>)
   /\ \/ ~TypedIsList(Typed)
      \/ TypedListNames(Typed) \cap (1..Len(prevList)) = {}) =>
    /\ list = prevList
    /\ loop = "Reviewing"
    /\ pc = "top"

\* C4 as amended: a d command whose second word is not a and has no
\* comma-separated part that reads, by its leading digits, as an index or a
\* range reaching into [1, length] is answered with "No valid indices." and
\* leaves the list as it was, the loop back at its top in Reviewing and
\* nothing returned or applied: repeating it changes nothing either.
C4_NoIndexReadChangesNothing ==
  (/\ Processed(<<"d">>)
   /\ SecondWord # <<"a">>
   /\ RestListReadsAs(SecondWord, Len(prevList)) = {}) =>
    /\ list = prevList
    /\ loop = "Reviewing"
    /\ pc = "top"
    /\ report = "No valid indices."
    /\ applyCalls = 0
    /\ result = "none"

\* d 0 answered with "No valid indices." on a list with suggestions
C4_Witness ==
  /\ Processed(<<"d">>)
  /\ Typed = <<<<"0">>>>
  /\ report = "No valid indices."
  /\ pc = "top"
  /\ list = prevList
  /\ list # <<>>

\* C5 as claimed: an e command whose n is not an integer in [1, length] is
\* reported, opens no edit prompt and leaves the list unchanged, the loop
\* staying in Reviewing.
C5_BadIndexReported ==
  (/\ Processed(<<"e">>)
   /\ ~(TypedIsIndex(Typed) /\ SignedDecimal(Typed[1]) \in 1..Len(prevList))) =>
    /\ report = "Out of range."
    /\ pc = "top"
    /\ branch = "outOfRange"
    /\ list = prevList
    /\ loop = "Reviewing"

\* C5 as amended: an e command whose second word has no leading integer, or
\* whose leading integer lies outside [1, length], is reported, opens no edit
\* prompt and leaves the list unchanged, the loop staying in Reviewing.
C5_NoIndexReadReported ==
  (Processed(<<"e">>) /\ RestIndexReadsAs(SecondWord, Len(prevList)) = {}) =>
    /\ report = "Out of range."
    /\ pc = "top"
    /\ branch = "outOfRange"
    /\ list = prevList
    /\ loop = "Reviewing"

\* e 0 answered with "Out of range." on a list with suggestions
C5_Witness ==
  /\ Processed(<<"e">>)
  /\ Typed = <<<<"0">>>>
  /\ report = "Out of range."
  /\ pc = "top"
  /\ list = prevList
  /\ list # <<>>

\* C6: an e command with n in [1, length] opens the edit prompt for element
\* n without touching the list; the answer changes at most the text of that
\* element: a blank answer keeps it, any other answer replaces it by the
\* answer without the blanks at its ends; type and location of the element,
\* all other elements, the length and the order stay.
C6_EditChangesOnlyText ==
  (/\ Processed(<<"e">>)
   /\ TypedIsIndex(Typed)
   /\ SignedDecimal(Typed[1]) \in 1..Len(prevList)) =>
    LET n == SignedDecimal(Typed[1])
    IN /\ pc \in {"edit", "top"}
       /\ loop = "Reviewing"
       /\ pc = "edit" => (branch = "editPrompt" /\ list = prevList)
       /\ pc = "top" =>
            /\ branch = "edited"
            /\ Len(list) = Len(prevList)
            /\ \A k \in 1..Len(list) : k # n => list[k] = prevList[k]
            /\ list[n].type = prevList[n].type
            /\ list[n].location = prevList[n].location
            /\ IF Blank(reply)
                 THEN list[n].suggestion = prevList[n].suggestion
                 ELSE Stripped(reply, list[n].suggestion)

\* e 2 on three suggestions, answered with a text typed after a blank
C6_Witness ==
  /\ Processed(<<"e">>)
  /\ Typed = <<<<"2">>>>
  /\ pc = "top"
  /\ reply = <<" ", "t">>
  /\ prevList = suggestions.items
  /\ Len(list) = 3
  /\ list[2] = [Suggestion(2) EXCEPT !.suggestion = <<"t">>]
  /\ list[1] = Suggestion(1)
  /\ list[3] = Suggestion(3)

\* C7: the command d a empties the list whatever it holds, raises no error
\* and leaves the loop in Reviewing; a c on the emptied list returns it.
C7_DeleteAllEmpties ==
  /\ (Processed(<<"d">>) /\ Typed = <<<<"a">>>>) =>
       /\ list = <<>>
       /\ loop = "Reviewing"
       /\ pc = "top"
       /\ report = "none"
  /\ (Processed(<<"c">>) /\ prevList = <<>>) =>
       /\ approvedList = <<>>
       /\ loop = "Applying"

\* d a has just emptied a list of three
C7_Witness ==
  /\ Processed(<<"d">>)
  /\ Typed = <<<<"a">>>>
  /\ Len(prevList) = 3
  /\ list = <<>>
  /\ loop = "Reviewing"

\* C8: a line whose command word is none of d, e, c, q is reported as
\* unrecognized and changes nothing; the loop stays in Reviewing.
C8_UnknownChangesNothing ==
  (/\ pc \in {"top", "edit", "apply", "done", "failed"}
   /\ line # <<>>
   /\ line[1] \notin {<<"d">>, <<"e">>, <<"c">>, <<"q">>}) =>
    /\ report = "Unknown command."
    /\ list = prevList
    /\ loop = "Reviewing"
    /\ pc = "top"
    /\ applyCalls = 0
    /\ result = "none"

\* the word da has been reported as unknown on a list with suggestions
C8_Witness ==
  /\ Processed(<<"d", "a">>)
  /\ report = "Unknown command."
  /\ loop = "Reviewing"
  /\ list = prevList
  /\ list # <<>>

\* C9: the loop starts in Reviewing, goes to Applying only on c and to
\* Aborted only on q, stays in Reviewing after any other line and while the
\* edit prompt is answered, and in Applying or Aborted processes nothing more.
C9_ThreeStates ==
  [][/\ loop \in {"NotStarted", "Reviewing", "Applying", "Aborted"}
     /\ (loop = "NotStarted" /\ loop' # loop) => loop' = "Reviewing"
     /\ (pc = "line" /\ line # <<>> /\ line[1] = <<"c">>) =>
          (loop = "Reviewing" /\ loop' = "Applying")
     /\ (pc = "line" /\ line # <<>> /\ line[1] = <<"q">>) =>
          (loop = "Reviewing" /\ loop' = "Aborted")
     /\ (loop = "Reviewing" /\ loop' # loop) =>
          (pc = "line" /\ line # <<>> /\ line[1] \in {<<"c">>, <<"q">>})
     /\ loop \in {"Applying", "Aborted"} =>
          /\ ~InLoop(pc) /\ ~InLoop(pc')
          /\ UNCHANGED <<loop, list, line, idx, reply, prevList, branch, report,
                         approvedList>>]_vars

\* the loop ended in Applying and polishCV went on to return a revised document
C9_Witness ==
  /\ loop = "Applying"
  /\ pc = "done"
  /\ result = "cv1"
  /\ branch = "continue"

\* C10: applyCVEdits is called once, with the whole live list, when the loop
\* ends with c on a list that is not empty, and not at all when it ends with
\* q or with c on an emptied list; then polishCV returns the document it was
\* given.
C10_AllOrNothing ==
  /\ applyCalls \in {0, 1}
  /\ (loop = "Applying" /\ list # <<>>) =>
       (applyCalls = 1 /\ applyArg = list /\ pc \in {"apply", "done", "failed"})
  /\ (loop = "Aborted" \/ (loop = "Applying" /\ list = <<>>)) =>
       (applyCalls = 0 /\ pc = "done" /\ result = cvMarkdown)
  /\ loop \in {"NotStarted", "Reviewing"} => applyCalls = 0

\* c on a list emptied by deletions: no call, the document as given
C10_Witness ==
  /\ Processed(<<"c">>)
  /\ suggestions.items # <<>>
  /\ list = <<>>
  /\ applyCalls = 0
  /\ pc = "done"
  /\ result = cvMarkdown

\* C11: when suggestCVImprovements answers with no suggestions, or without a
\* suggestions field, polishCV never starts the review loop, never calls
\* applyCVEdits and returns the document it was given.
C11_NoSuggestionsShortCircuit ==
  (/\ pc \notin {"idle", "suggest", "failed"}
   /\ (~suggestions.has \/ suggestions.items = <<>>)) =>
    /\ pc = "done"
    /\ loop = "NotStarted"
    /\ list = <<>>
    /\ line = <<>>
    /\ branch = "none"
    /\ applyCalls = 0
    /\ result = cvMarkdown

\* an answer with a suggestions field holding the empty array
C11_Witness ==
  /\ pc = "done"
  /\ suggestions.has
  /\ suggestions.items = <<>>
  /\ loop = "NotStarted"
  /\ result = cvMarkdown

\* ------------------------------------------------ properties of a whole run
Has(t, x) == \E k \in 1..Len(t) : t[k] = x

\* position of the first x in t (0: none)
IndexOf(t, x) ==
  IF Has(t, x) THEN CHOOSE k \in 1..Len(t) : t[k] = x /\ \A m \in 1..(k - 1) : t[m] # x
  ELSE 0

\* the operator has ended the review of the current attempt with q
OperatorQuit == loop = "Aborted" \/ Has(trace, "quit")

\* C12: an operator quit is not an error: the attempt goes on, the covering
\* letter is still composed, and the CV printed at the end of the attempt is
\* the composed CV with no edit applied.
C12_QuitIsNotAnError ==
  OperatorQuit =>
    /\ ~Has(trace, "apply")
    /\ applyCalls = 0
    /\ loop = "Aborted" => (mpc = "polish" /\ pc = "done" /\ result = composed)
    /\ (mpc = "exited" /\ exitCode = 1) => ~Has(trace, "emit")
    /\ mpc \in {"letter", "returned"} => (cvOut = composed /\ composed # "none")
    /\ mpc = "letter" => letterArg = cvBaseData
    /\ mpc = "returned" =>
         /\ emitted = [letter |-> "letter", cv |-> composed]
         /\ exitCode = -1
    /\ (mpc \in {"returned", "sleeping"} \/ (mpc = "exited" /\ exitCode = 0)) =>
         /\ Has(trace, "letter")
         /\ Has(trace, "emit")
         /\ IndexOf(trace, "quit") < IndexOf(trace, "letter")

\* the attempt of a quit has printed the letter and the composed CV
C12_Witness ==
  /\ mpc = "returned"
  /\ Has(trace, "quit")
  /\ emitted = [letter |-> "letter", cv |-> "cv0"]
  /\ composed = "cv0"
  /\ exitCode = -1

\* the scores sc (by position) put position p before position q
ScoredBefore(sc, p, q) == sc[p] > sc[q] \/ (sc[p] = sc[q] /\ p < q)

\* r names the first min(10, n) positions of the list scored sc, by score
\* descending, ties in input order
IsTopTen(r, sc) ==
  /\ Len(r) = (IF Len(sc) < 10 THEN Len(sc) ELSE 10)
  /\ \A k \in 1..Len(r) : r[k] \in 1..Len(sc)
  /\ \A k \in 1..(Len(r) - 1) : ScoredBefore(sc, r[k], r[k + 1])
  /\ \A e \in 1..Len(sc) :
       (\A k \in 1..Len(r) : r[k] # e) =>
         \A k \in 1..Len(r) : ScoredBefore(sc, r[k], e)

\* C13: for skills and for achievements the list put into the CV input is the
\* first min(10, n) items of the input list sorted by score descending, ties
\* in input order; no excluded item has a higher score than an included one.
C13_TopTenStable ==
  /\ (Len(answered.skills) = Len(cvBaseData.skills) /\ mpc # "polish") =>
       /\ IsTopTen(cv.skills, answered.skills)
       /\ \A k \in 1..Len(cv.skills) :
            \A e \in 1..Len(answered.skills) :
              (\A m \in 1..Len(cv.skills) : cv.skills[m] # e) =>
                answered.skills[e] <= answered.skills[cv.skills[k]]
  /\ (Len(answered.achievements) = Len(cvBaseData.achievements)
      /\ mpc # "polish") =>
       IsTopTen(cv.achievements, answered.achievements)
  /\ (Len(cvBaseData.skills) = 3 /\ answered.skills = <<7, 3, 9>>) =>
       cv.skills = <<3, 1, 2>>

\* eleven skills: the last scores highest and comes first, the first scores
\* lowest and is left out, the nine between tie and keep their order
C13_Witness ==
  /\ Len(cvBaseData.skills) = 11
  /\ answered.skills = <<3, 7, 7, 7, 7, 7, 7, 7, 7, 7, 9>>
  /\ cv.skills = <<11, 2, 3, 4, 5, 6, 7, 8, 9, 10>>

\* the role of the CV input that has title t
CVRole(t) ==
  CHOOSE r \in {cv.pastJobRoles[k] : k \in 1..Len(cv.pastJobRoles)} : r.jobTitle = t

\* the CV input with all past roles scored is at composeCVMarkdown
RolesComposed ==
  /\ mpc = "compose"
  /\ Len(answered.roles) = Len(cvBaseData.pastJobRoles)

\* C14: in the CV input given to composeCVMarkdown every past role scored
\* below the threshold (80) has no description and every other role has its
\* description as in the profile.
C14_RedactionByThreshold ==
  RolesComposed =>
    /\ Len(cv.pastJobRoles) = Len(cvBaseData.pastJobRoles)
    /\ \A i \in 1..Len(cvBaseData.pastJobRoles) :
         /\ \E k \in 1..Len(cv.pastJobRoles) : cv.pastJobRoles[k].jobTitle = i
         /\ IF answered.roles[i] < 80
              THEN ~CVRole(i).description.given
              ELSE CVRole(i).description = cvBaseData.pastJobRoles[i].description

\* two described roles, one scored below 80 and one scored 80
C14_Witness ==
  /\ RolesComposed
  /\ answered.roles = <<1, 80>>
  /\ cvBaseData.pastJobRoles[1].description.given
  /\ cvBaseData.pastJobRoles[2].description.given
  /\ ~CVRole(1).description.given
  /\ CVRole(2).description = GivenStr("led the team")

\* C15 as claimed: with role scores on the 1..10 scale the branch that omits
\* the description never triggers: no role loses its description.
C15_NeverOmits ==
  RolesComposed =>
    \A i \in 1..Len(cvBaseData.pastJobRoles) :
      answered.roles[i] \in 1..10 =>
        CVRole(i).description = cvBaseData.pastJobRoles[i].description

\* C15 as amended: with role scores on the 1..10 scale the branch that omits
\* the description triggers for every role: every score is below 80, so no
\* role keeps its description in the CV input.
C15_AlwaysOmits ==
  /\ RolesComposed =>
       \A i \in 1..Len(cvBaseData.pastJobRoles) :
         answered.roles[i] \in 1..10 => ~CVRole(i).description.given
  /\ mpc = "roles" =>
       \A k \in 1..Len(scored) :
         answered.roles[k] \in 1..10 => ~scored[k].description.given

\* a described role with the best score of the scale has lost its description
C15_Witness ==
  /\ RolesComposed
  /\ Len(cvBaseData.pastJobRoles) = 1
  /\ cvBaseData.pastJobRoles[1].description = GivenStr("led the team")
  /\ answered.roles = <<10>>
  /\ ~cv.pastJobRoles[1].description.given

\* the open-status check of the current attempt has answered: closed
ClosedAttempt == Has(trace, "closed")

\* C16: when the open-status check reports closed, runOnce returns at once
\* with gotJob = false and nextRun = null: no scoring, no CV composition, no
\* suggestion, review or edit step and no covering letter in that attempt.
C16_ClosedReturnsAtOnce ==
  ClosedAttempt =>
    /\ mpc \in {"returned", "sleeping", "exited"}
    /\ exitCode # 1
    /\ mpc = "returned" => (~openStatus /\ ~res.gotJob /\ ~res.nextRun.given)
    /\ trace = <<"notes", "profile", "fetch", "open", "closed">>
    /\ answered = NoScores
    /\ cv = EmptyCV
    /\ composed = "none"
    /\ pc = "idle"
    /\ suggestions = Missing
    /\ applyCalls = 0
    /\ cvOut = "none"
    /\ letterArg = NoProfile
    /\ emitted = NothingEmitted
    /\ days = 0

\* a closed attempt has returned
C16_Witness ==
  /\ ClosedAttempt
  /\ mpc = "returned"
  /\ res = [gotJob |-> FALSE, nextRun |-> AbsentNum]
  /\ cvBaseData # NoProfile
  /\ llmCalled

\* continuous mode: started with --daemon and without --once
Continuous == inLoop /\ argv.daemon /\ ~argv.once

ConfiguredMin == IF jobCfg.minReapplyDays.given THEN jobCfg.minReapplyDays.val ELSE 30

ConfiguredMax == IF jobCfg.maxReapplyDays.given THEN jobCfg.maxReapplyDays.val ELSE 90

\* C18: after every unsuccessful attempt the delay to the next attempt is a
\* whole number of days d with minReapplyDays <= d <= maxReapplyDays, for
\* every configured pair of non-negative integers minReapplyDays <=
\* maxReapplyDays (30 and 90 for an absent field).
C18_DelayWithinConfiguredDays ==
  (/\ mpc = "returned"
   /\ res.nextRun.given
   /\ ConfiguredMin <= ConfiguredMax) =>
    /\ res.nextRun.val = days
    /\ ConfiguredMin <= days
    /\ days <= ConfiguredMax

\* attempts made so far
AttemptsMade ==
  IF mpc \in {"module", "main", "jobcfg"} \/ job = "none" THEN 0
  ELSE IF inLoop THEN attempt ELSE 1

InAttempt ==
  mpc \in {"notes", "profile", "fetch", "open", "skills", "achievements",
           "roles", "compose", "polish", "letter"}

\* what the attempt counts obey whatever maxAttempts is: --once makes one
\* attempt, a timer is pending only below the limit
OnceAndTimer ==
  /\ argv.once => (AttemptsMade <= 1 /\ mpc # "sleeping" /\ ~viaTimer)
  /\ (argv.once /\ mpc = "returned") => AttemptsMade = 1
  /\ mpc = "sleeping" => (timer.armed /\ attempt < maxAttempts)

\* as long as every attempt returns (none goes on for ever), the process
\* exits in the end
ExitsInTheEnd == []<>(~InAttempt) => <>[](mpc = "exited")

\* C19 as claimed: the attempt loop stops after maxAttempts attempts or on
\* --once: for every configured maxAttempts (3 when not configured) the
\* attempts made never exceed maxAttempts, with --once exactly one attempt is
\* made, and as long as every attempt returns the process exits in the end
\* instead of scheduling forever.
C19_AttemptsNeverExceedLimit ==
  /\ [](/\ AttemptsMade > 0 => AttemptsMade <= maxAttempts
        /\ (AttemptsMade > 0 /\ ~jobCfg.maxAttempts.given) => AttemptsMade <= 3
        /\ (AttemptsMade > 0 /\ jobCfg.maxAttempts.given) =>
             AttemptsMade <= jobCfg.maxAttempts.val
        /\ OnceAndTimer)
  /\ ExitsInTheEnd

\* C19 as amended: the first attempt is made before the limit is looked at;
\* for every configured maxAttempts >= 1 (3 when not configured) the attempts
\* made never exceed maxAttempts, and with maxAttempts 0 one attempt is made;
\* with --once exactly one attempt is made, and as long as every attempt
\* returns the process exits in the end instead of scheduling forever.
C19_AttemptsBoundedAndExit ==
  /\ [](/\ (AttemptsMade > 0 /\ ~jobCfg.maxAttempts.given) => AttemptsMade <= 3
        /\ (AttemptsMade > 0 /\ jobCfg.maxAttempts.given) =>
             IF jobCfg.maxAttempts.val >= 1
               THEN AttemptsMade <= jobCfg.maxAttempts.val
               ELSE AttemptsMade = 1
        /\ OnceAndTimer)
  /\ ExitsInTheEnd

\* three attempts were made under the default limit and the process has exited
C19_Witness ==
  /\ ~jobCfg.maxAttempts.given
  /\ AttemptsMade = 3
  /\ mpc = "exited"
  /\ exitCode = 0
  /\ Continuous

\* the credential is missing when main runs
NoCredential == mpc # "module" /\ key # "set"

\* the config has been read and neither it nor the command line names a job
NoJobTarget ==
  /\ mpc \notin {"module", "main", "jobcfg"}
  /\ argv.job = "none"
  /\ jobCfg.job = "none"

\* C20: without the API credential, or without a job target (neither --job
\* nor the config's job field), the run fails with a printed error and a
\* non-zero exit status, and no model call has been made.
C20_FatalBeforeAnyModelCall ==
  /\ NoCredential =>
       /\ mpc \in {"main", "exited"}
       /\ mpc = "exited" => (exitCode = 1 /\ printed # "none")
       /\ ~llmCalled
       /\ trace = <<>>
  /\ NoJobTarget =>
       /\ mpc = "exited"
       /\ exitCode = 1
       /\ printed # "none"
       /\ ~llmCalled
       /\ trace = <<>>
       /\ attempt = 0

\* the key is set but neither --job nor the config names a job: the run has
\* ended with status 1 through main().catch
C20_Witness ==
  /\ key = "set"
  /\ NoJobTarget
  /\ jobCfg.daemon
  /\ mpc = "exited"
  /\ exitCode = 1
  /\ printed = "main().catch"
  /\ ~llmCalled

\* C21: with a schema, sendToLLM returns a result that validates against the
\* schema or fails: every score a scorer has handed to draftCV is an integer
\* s with 1 <= s <= 10.
C21_ScoresValidate ==
  /\ \A k \in 1..Len(answered.skills) : ValidScore(answered.skills[k])
  /\ \A k \in 1..Len(answered.achievements) :
       ValidScore(answered.achievements[k])
  /\ \A k \in 1..Len(answered.roles) : ValidScore(answered.roles[k])

\* C22: every fatal error raised during an attempt, the first one or one the
\* retry timer started, reaches the top-level handler main().catch, which
\* prints the message and ends the process with a non-zero status; the failed
\* step is not retried.
C22_FatalReachesRunHandler ==
  /\ (AttemptsMade > 0 /\ printed # "none") =>
       /\ printed = "main().catch"
       /\ mpc = "exited"
       /\ exitCode = 1
  /\ exitCode = 1 => (mpc = "exited" /\ printed # "none")

\* the place of a step in an attempt
StepRank(x) ==
  CASE x = "notes" -> 1 [] x = "profile" -> 2 [] x = "fetch" -> 3
    [] x = "open" -> 4 [] x = "closed" -> 5 [] x = "skill" -> 5
    [] x = "achievement" -> 6 [] x = "role" -> 7 [] x = "compose" -> 8
    [] x = "suggest" -> 9 [] x = "review" -> 10 [] x = "quit" -> 11
    [] x = "continue" -> 11 [] x = "apply" -> 12 [] x = "letter" -> 13
    [] x = "emit" -> 14

\* the steps no attempt with applications open leaves out
Mandatory ==
  {"notes", "profile", "fetch", "open", "compose", "suggest", "letter", "emit"}

Scoring == {"skill", "achievement", "role"}

Count(t, x) == Cardinality({k \in 1..Len(t) : t[k] = x})

\* the steps of t are in the order of an attempt: each step after the steps
\* of lower rank, only scoring steps repeat, no mandatory step is left out
\* on the way
InAttemptOrder(t) ==
  /\ \A k \in 1..(Len(t) - 1) :
       \/ StepRank(t[k]) < StepRank(t[k + 1])
       \/ (t[k] = t[k + 1] /\ t[k] \in Scoring)
  /\ \A k \in 1..Len(t) :
       \A m \in Mandatory :
         StepRank(m) < StepRank(t[k]) => \E j \in 1..(k - 1) : t[j] = m

\* the attempt's locals are still there
LocalsAlive == InAttempt \/ mpc = "returned"

\* C23: within one attempt with applications open the steps happen in this
\* order, each after the one before has finished: notes and profile, job
\* description, open status, skills, achievements, past roles (each list in
\* input order, one scorer call per element), compose, suggestions, review,
\* apply (only after a continue with something approved), letter, emit.
C23_StepsInOrder ==
  ~ClosedAttempt =>
    /\ InAttemptOrder(trace)
    /\ mpc = "notes" => trace = <<>>
    /\ mpc = "profile" => trace = <<"notes">>
    /\ mpc = "fetch" => trace = <<"notes", "profile">>
    /\ mpc = "open" => trace = <<"notes", "profile", "fetch">>
    /\ mpc = "skills" =>
         /\ trace[Len(trace)] \in {"open", "skill"}
         /\ Count(trace, "skill") = Len(scored)
         /\ Len(scored) < Len(cvBaseData.skills)
         /\ \A k \in 1..Len(scored) : scored[k].item = cvBaseData.skills[k]
    /\ mpc = "achievements" =>
         /\ trace[Len(trace)] \in {"open", "skill", "achievement"}
         /\ Count(trace, "achievement") = Len(scored)
         /\ Len(scored) < Len(cvBaseData.achievements)
         /\ \A k \in 1..Len(scored) : scored[k].item = cvBaseData.achievements[k]
    /\ mpc = "roles" =>
         /\ trace[Len(trace)] \in {"open", "skill", "achievement", "role"}
         /\ Count(trace, "role") = Len(scored)
         /\ Len(scored) < Len(cvBaseData.pastJobRoles)
         /\ \A k \in 1..Len(scored) :
              scored[k].jobTitle = cvBaseData.pastJobRoles[k].jobTitle
    /\ (LocalsAlive /\ mpc \notin {"notes", "profile", "fetch", "open", "skills"}) =>
         Count(trace, "skill") = Len(cvBaseData.skills)
    /\ (LocalsAlive /\ Has(trace, "compose")) =>
         /\ Count(trace, "achievement") = Len(cvBaseData.achievements)
         /\ Count(trace, "role") = Len(cvBaseData.pastJobRoles)
    /\ mpc = "compose" => trace[Len(trace)] \in Scoring \cup {"open"}
    /\ mpc = "polish" =>
         /\ trace[Len(trace)] = "compose"
         /\ pc # "idle"
         /\ loop # "NotStarted" => (suggestions.has /\ suggestions.items # <<>>)
         /\ applyCalls > 0 => (loop = "Applying" /\ applyArg # <<>>)
         /\ applyCalls <= 1
    /\ mpc \notin {"polish", "exited"} => pc = "idle"
    /\ Has(trace, "apply") =>
         /\ Has(trace, "continue")
         /\ IndexOf(trace, "apply") = IndexOf(trace, "continue") + 1
    /\ mpc = "letter" => trace[Len(trace)] \in {"suggest", "quit", "continue", "apply"}
    /\ mpc = "returned" =>
         /\ SubSeq(trace, Len(trace) - 1, Len(trace)) = <<"letter", "emit">>
         /\ emitted.letter = "letter"

\* an attempt has gone through every step, the review ended with continue and
\* the edits were applied
C23_Witness ==
  /\ mpc = "returned"
  /\ trace = <<"notes", "profile", "fetch", "open", "skill", "skill",
               "achievement", "role", "compose", "suggest", "review",
               "continue", "apply", "letter", "emit">>

\* model calls in flight: the one runOnce or draftCV awaits and the one
\* polishCV awaits
CallsInFlight ==
  (IF mpc \in {"fetch", "open", "skills", "achievements", "roles", "compose",
               "letter"} THEN 1 ELSE 0)
    + (IF pc \in {"suggest", "apply"} THEN 1 ELSE 0)

\* nothing of an attempt is left: its locals are gone and no review is open
NothingRunning ==
  /\ cvBaseData = NoProfile
  /\ coveringLetterThoughts = "none"
  /\ cv = EmptyCV
  /\ scored = <<>>
  /\ cvOut = "none"
  /\ res = NoResult
  /\ pc = "idle"

\* C24: execution is strictly sequential: at most one model call is in
\* flight, at most one attempt is running and a retry timer is pending only
\* while no attempt runs; the timer is armed only by the step in which the
\* current attempt returns, and an attempt starts only from main or from the
\* timer, with nothing of an earlier attempt left.
C24_StrictlySequential ==
  /\ [](/\ CallsInFlight <= 1
        /\ timer.armed => (mpc = "sleeping" /\ CallsInFlight = 0 /\ NothingRunning)
        /\ InAttempt => ~timer.armed
        /\ (pc # "idle" /\ mpc # "exited") => mpc = "polish"
        /\ mpc = "notes" => NothingRunning)
  /\ [][(timer'.armed /\ timer' # timer) =>
          (~timer.armed /\ mpc = "returned" /\ mpc' = "sleeping")]_vars
  /\ [][(InAttempt' /\ ~InAttempt) =>
          /\ mpc \in {"jobcfg", "sleeping"}
          /\ mpc = "sleeping" => (timer.armed /\ ~timer'.armed)
          /\ mpc' = "notes"]_vars

\* the second attempt runs, started by the timer, with its first model call
\* in flight and no timer pending
C24_Witness ==
  /\ viaTimer
  /\ attempt = 2
  /\ mpc = "fetch"
  /\ CallsInFlight = 1
  /\ ~timer.armed

\* the profile of the current attempt has been read
ProfileLoaded == LocalsAlive /\ mpc \notin {"notes", "profile"}

\* C25: the profile loaded for an attempt is never changed by scoring,
\* ranking, trimming or the removal of descriptions: from its load to the
\* end of the attempt it is the profile as read, and draftCoveringLetter is
\* given that profile, with all skills, achievements and every past role's
\* description, in the original order.
C25_ProfileNeverMutated ==
  /\ [](/\ ProfileLoaded => cvBaseData \in RunProfiles
        /\ (mpc = "letter" \/ (mpc = "returned" /\ ~ClosedAttempt)) =>
             /\ letterArg = cvBaseData
             /\ letterArg \in RunProfiles
             /\ letterArg.skills = Ids(Len(letterArg.skills))
             /\ letterArg.achievements = Ids(Len(letterArg.achievements))
             /\ \A k \in 1..Len(letterArg.pastJobRoles) :
                  /\ letterArg.pastJobRoles[k].jobTitle = k
                  /\ letterArg.pastJobRoles[k].description.given)
  /\ [][ProfileLoaded => cvBaseData' \in {cvBaseData, NoProfile}]_vars

\* draftCoveringLetter has been called after the skills and the described
\* role were scored: it was given both skills in profile order and the role
\* with its description
C25_Witness ==
  /\ mpc = "letter"
  /\ Count(trace, "skill") = 2
  /\ Has(trace, "role")
  /\ letterArg.skills = <<1, 2>>
  /\ letterArg.pastJobRoles[1].description = GivenStr("led the team")

\* the loop runs only because of the config's daemon field
ConfigOnly == inLoop /\ jobCfg.daemon /\ ~argv.daemon

\* C26: a further attempt is scheduled only under the --daemon flag: when
\* the loop runs because of the config's daemon field alone, it makes exactly
\* one attempt and exits when that attempt returns, whatever maxAttempts is.
C26_ScheduleNeedsDaemonFlag ==
  /\ []((timer.armed \/ mpc = "sleeping" \/ viaTimer) => argv.daemon)
  /\ [](ConfigOnly => (attempt = 1 /\ AttemptsMade = 1 /\ ~timer.armed))
  /\ [][(ConfigOnly /\ mpc = "returned") =>
          (mpc' = "exited" /\ exitCode' = 0 /\ attempt' = 1)]_vars

\* the config asked for daemon mode and up to three attempts, the command
\* line did not: the first attempt has printed its letter and the process
\* has exited
C26_Witness ==
  /\ ConfigOnly
  /\ ~argv.once
  /\ maxAttempts = 3
  /\ attempt = 1
  /\ Has(trace, "emit")
  /\ mpc = "exited"
  /\ exitCode = 0

\* C27: in every state of the review loop the live list picks elements of
\* the initial suggestion list in their order, each with its category and
\* location (only the text may differ); its length never grows; and the array
\* and the objects the caller passed in stay as they were passed.
C27_LiveListIsSubsequence ==
  /\ [](loop # "NotStarted" =>
          /\ Survives(list, suggestions.items)
          /\ Survives(approvedList, suggestions.items)
          /\ Len(list) <= Len(suggestions.items)
          /\ suggestions.items \in SuggestionLists)
  /\ [][loop = "Reviewing" => Len(list') <= Len(list)]_vars
  /\ [][loop # "NotStarted" => suggestions' = suggestions]_vars

\* of three suggestions the first was given a new text and the second was
\* deleted: the live list holds the first and the third, the caller's array
\* still holds the three as passed
C27_Witness ==
  /\ pc = "top"
  /\ loop = "Reviewing"
  /\ suggestions.items = [i \in 1..3 |-> Suggestion(i)]
  /\ list = <<[Suggestion(1) EXCEPT !.suggestion = <<"t">>], Suggestion(3)>>

\* the start date of a role as the order reads it: a missing from counts as
\* the empty string
StartOf(role) == IF role.from.given THEN role.from.val ELSE ""

\* the start date x is later than the start date y
LaterStart(x, y) ==
  \/ (x = "2021-06" /\ y \in {"2019-03", ""})
  \/ (x = "2019-03" /\ y = "")

\* C28: the CV input given to composeCVMarkdown holds every past role of the
\* profile exactly once, whatever its score, ordered by from descending, a
\* missing from counting as the empty string and roles with equal from in
\* profile order.
C28_RolesAllKeptByStartDate ==
  RolesComposed =>
    /\ Len(cv.pastJobRoles) = Len(cvBaseData.pastJobRoles)
    /\ \A i \in 1..Len(cvBaseData.pastJobRoles) :
         /\ Cardinality({k \in 1..Len(cv.pastJobRoles) :
                           cv.pastJobRoles[k].jobTitle = i}) = 1
         /\ CVRole(i).from = cvBaseData.pastJobRoles[i].from
    /\ \A k \in 1..(Len(cv.pastJobRoles) - 1) :
         LET a == cv.pastJobRoles[k]
             b == cv.pastJobRoles[k + 1]
         IN \/ LaterStart(StartOf(a), StartOf(b))
            \/ (StartOf(a) = StartOf(b) /\ a.jobTitle < b.jobTitle)

\* the first role has no from and the lowest score, the second started in
\* 2021: the second comes first and both are there
C28_Witness ==
  /\ RolesComposed
  /\ Len(cvBaseData.pastJobRoles) = 2
  /\ ~cvBaseData.pastJobRoles[1].from.given
  /\ cvBaseData.pastJobRoles[2].from = GivenStr("2021-06")
  /\ answered.roles = <<1, 80>>
  /\ cv.pastJobRoles[1].jobTitle = 2
  /\ cv.pastJobRoles[2].jobTitle = 1

====
